---- MODULE Spec2Model ----
(***************************************************************************)
(* EchoMate: a spoken-dialogue assistant.  This module models the parts    *)
(* of the repository that carry state and ordering:                        *)
(*   - ContextManager over VectorStorage (modules/memory)                  *)
(*   - Speaker and its worker thread (modules/speech/speaker.py)           *)
(*   - AudioListener.process_audio (modules/speech/listener.py)            *)
(*   - ThoughtEngine.process_thought (modules/ai/thinking.py)              *)
(* Each component has its own specification over the shared variables.     *)
(***************************************************************************)
EXTENDS Integers, Sequences, FiniteSets, TLC

\* ------------------------------------------------------------------------
\* Bounds of the model and constants of the program
\* ------------------------------------------------------------------------

\* ContextManager.max_recent_messages (context.py:18)
max_recent_messages == 10

\* number of add_message calls explored
MaxAdds == 11

\* number of calls that read the same millisecond as the call before them
MaxSameMs == 1

Texts == {"hello"}

\* app.py:118 (the transcript's turn) and app.py:155 (the persona's reply)
Speakers == {"Human", "Echo"}

\* how the embedding store treats an id it already holds: the repository
\* pins no chromadb version, so both documented behaviours are possible
DupOutcomes == {"raise", "ignore"}

\* threads that Speaker.start() creates
MaxSpeakerThreads == 2

\* non-empty texts passed to Speaker.speak()
MaxSpeak == 3

SpeakTexts == {"", "a", "b"}

\* self.speech_thread = None (speaker.py:22); threads are numbered from 1
NoThread == 0

\* threads that AudioListener.start() creates
MaxListenerThreads == 2

\* frames the input stream delivers
MaxFrames == 3

\* the same two bounds for the specification of one capture session
MaxCaptureStarts == 1
MaxCaptureFrames == 2

\* frames delivered to the application
MaxAppFrames == 1
MaxHangFrames == 2
MaxReplyFrames == 2

\* sample rates the listener is constructed with: 2 and 3 frames of 1024
\* samples make up the two seconds of a collection
SampleRates == {1024, 1600}

\* what model.transcribe gives back: a text, or an exception
SttResults == {"raise", " ", " hi "}

\* how AudioListener.start() finds the audio device
DeviceOutcomes == {"ok", "nodevice", "streamfail"}

\* changes of the context and the store in a run of the memory
MaxMemoryOps == 3

\* calls of add_message made by the threads that race
MaxAmCalls == 3

\* errors written to the session by the handlers of the application
MaxErrors == 2

\* n_results of a search (the default of max_results)
n_results == 5

\* readings of time.time() told apart within one millisecond
TicksPerMs == 2

\* the topics update_topic is called with
Topics == {"plans"}

\* the urls of the references added
Urls == {"U1"}

\* the order in which the backend ranks the documents of a partition
RankOrders == {"insertion", "reverse"}

\* Python's None, and a key a mapping does not hold
PyNone == "<None>"

\* the query argument of process_thought: left out, empty, or a question
Queries == {PyNone, "", "weather"}

\* the clarification needs an analysis may list
Needs == {"n1", "n2"}

\* items of a search result are at most this many
MaxResults == 2

\* what the generation backend gives back: an exception, or a text
GenOutcomes == {"raise", "", "Sure."}

VARIABLES
    \* ---- VectorStorage / ContextManager
    clock,                    \* time.time() in milliseconds
    conversation_collection,  \* documents of the conversation partition, in insertion order
    participants,             \* current_context['participants']
    recent_messages,          \* current_context['recent_messages']
    current_topic,            \* current_context['current_topic']
    active_references,        \* current_context['active_references']
    reference_collection,     \* documents of the reference partition, in insertion order
    convReturned,             \* history: the ids add_conversation returned
    refReturned,              \* history: the ids VectorStorage.add_reference returned
    justCleared,              \* history: clear_context() was the last change of the context
    lastRead,                 \* history: the last read since the last change, and its result
    added,                    \* history: the messages add_message returned for since construction/clear
    budget,                   \* calls the context may still take
    nSameMs,                  \* history: calls that found the clock not advanced
    \* ---- Speaker
    speech_queue,             \* Speaker.speech_queue (queue.Queue, unbounded)
    is_speaking,              \* Speaker.is_speaking
    speech_thread,            \* Speaker.speech_thread: None or the thread started last
    spk,                      \* the process_speech_queue threads: position and item in hand
    spkCtl,                   \* the thread calling start()/stop(): idle, or inside stop()'s join
    nSpkThreads,              \* history: threads created by start()
    nSpoken,                  \* history: items enqueued by speak()
    invoked,                  \* history: items handed to synthesis, in the order of the calls
    cleared,                  \* history: items removed by clear_queue()
    \* ---- AudioListener
    sample_rate,              \* AudioListener.sample_rate (constructor argument)
    audio_queue,              \* AudioListener.audio_queue (queue.Queue, unbounded)
    is_listening,             \* AudioListener.is_listening
    stream,                   \* AudioListener.stream: none (no attribute), active, closed
    process_thread,           \* AudioListener.process_thread: the thread started last
    lis,                      \* the process_audio threads: position, loop index, audio_data,
                              \* and (history) the flag went down during the collection
    lisCtl,                   \* the thread calling start()/stop(): idle, or inside stop()'s join
    nLisThreads,              \* history: threads created by start()
    nFrames,                  \* history: frames the device has delivered
    flagCleared,              \* history: is_listening has been set to False after a start
    sttCalls,                 \* history: the audio handed to model.transcribe, call by call
    callbacks,                \* history: the texts handed to the registered callback
    delivered,                \* history: the frames of each transcript handed to the callback
    lisStopped,               \* history: stop() has returned and start() was not called since
    last_transcript,          \* st.session_state.last_transcript
    start_error,              \* history: what the last start() raised, None when it returned
    lastResult,               \* history: how the last of them ended
    \* ---- ThoughtEngine.process_thought (one call at a time)
    thPc,                     \* position of the call: idle, analyze, decide, search, generate, extract, done
    thQuery,                  \* the query argument
    thAnalysis,               \* analysis: what _analyze_context returned
    thSearchResults,          \* search_results: None, or what _search_internet returned
    thSearches,               \* history: the strings _search_internet was called with in this call
    thResponse,               \* response: what _generate_response returned
    thGenFailed,              \* history: the generation backend failed in this call
    thResult,                 \* how the call ended: pending, returned (response, references), raised
    \* ---- the threads of the application that call into the objects above
    amCall,                   \* per calling thread: where it is inside ContextManager.add_message
    nAmCalls,                 \* history: the calls of add_message made
    amIds,                    \* history: per call, in the order of the calls, the id it was given (0: none yet)
    \* ---- VirtualTeamMemberApp and st.session_state
    session_listening,        \* st.session_state.is_listening
    error_message,            \* st.session_state.error_message: NoError, or the number of the error written
    nErrors,                  \* history: the errors written to error_message
    shown,                    \* history: the errors st.error has displayed
    renderPc,                 \* render_ui: "idle", or "clear" between st.error and the assignment of None
    tasks,                    \* the transcripts of the tasks created on the event loop
    nHandled,                 \* the callbacks handle_speech_input has taken
    task,                     \* async_process_input of the task the loop is running
    ended,                    \* history: per task that ended, whether it gave a text to the speaker
    hang                      \* history: a backend call that never returns, and the counts when it started

ctxVars == <<clock, conversation_collection, participants, recent_messages,
             current_topic, active_references, reference_collection,
             convReturned, refReturned, justCleared, lastRead,
             added, budget, nSameMs>>

spkVars == <<speech_queue, is_speaking, speech_thread, spk, spkCtl,
             nSpkThreads, nSpoken, invoked, cleared>>

lisVars == <<sample_rate, audio_queue, is_listening, stream, process_thread,
             lis, lisCtl, nLisThreads, nFrames, flagCleared, sttCalls,
             callbacks, delivered, lisStopped, last_transcript, start_error, lastResult>>

thVars == <<thPc, thQuery, thAnalysis, thSearchResults, thSearches,
            thResponse, thGenFailed, thResult>>

raceVars == <<amCall, nAmCalls, amIds>>

sessVars == <<session_listening, error_message, nErrors, shown, renderPc>>

taskVars == <<tasks, nHandled, task, ended, hang>>

appVars == <<raceVars, sessVars, taskVars>>

vars == <<ctxVars, spkVars, lisVars, thVars, appVars>>

\* what an operation of one component leaves alone
notCtx == <<spkVars, lisVars, thVars, appVars>>
notSpk == <<ctxVars, lisVars, thVars, appVars>>
notLis == <<ctxVars, spkVars, thVars, appVars>>
notTh == <<ctxVars, spkVars, lisVars, appVars>>

\* ------------------------------------------------------------------------
\* Sequence helpers
\* ------------------------------------------------------------------------

\* the last n elements of s (all of s when it is shorter)
LastN(s, n) ==
    IF Len(s) <= n THEN s ELSE SubSeq(s, Len(s) - n + 1, Len(s))

Min(a, b) == IF a <= b THEN a ELSE b

Ids(coll) == {coll[i].id : i \in 1..Len(coll)}

\* ------------------------------------------------------------------------
\* VectorStorage.add_conversation
\* ------------------------------------------------------------------------

\* entry_id = f"conv_{int(time.time() * 1000)}": the id is the clock reading
ConvId(now) == now

ConvDoc(now, text, speaker) ==
    [id |-> ConvId(now), text |-> text, speaker |-> speaker]

\* collection.add of a document: appended, unless the id is already held
\* (then the store either rejects the call or ignores the document)
CollectionAdd(coll, doc, dup) ==
    IF doc.id \in Ids(coll)
    THEN [raised |-> dup = "raise", coll |-> coll]
    ELSE [raised |-> FALSE, coll |-> Append(coll, doc)]

\* ------------------------------------------------------------------------
\* ContextManager
\* ------------------------------------------------------------------------

Message(id, text, speaker, now) ==
    [id |-> id, text |-> text, speaker |-> speaker, timestamp |-> now]

\* "Maintain recent messages limit": one pop(0) when the limit is exceeded
TrimRecentWrongEnd(msgs) ==
    IF Len(msgs) > max_recent_messages
    THEN SubSeq(msgs, 1, Len(msgs) - 1)
    ELSE msgs

TrimRecent(msgs) ==
    IF Len(msgs) > max_recent_messages
    THEN Tail(msgs)
    ELSE msgs

\* the clock reading of a call: one millisecond or more after the reading
\* before it (tick = 1), or the same millisecond (tick = 0)
ReadClock(tick) ==
    /\ tick = 0 => nSameMs < MaxSameMs
    /\ nSameMs' = IF tick = 0 THEN nSameMs + 1 ELSE nSameMs
    /\ clock' = clock + tick

\* no read has been made since the context or the store changed
NoRead == [op |-> "none"]

\* a call that changes the context or the store
Change(isClear) ==
    /\ budget > 0
    /\ budget' = budget - 1
    /\ justCleared' = isClear
    /\ lastRead' = NoRead

\* what add_message does to the store and the context
AddMessageEffect(text, speaker, tick, dup) ==
    /\ ReadClock(tick)
    /\ LET r == CollectionAdd(conversation_collection,
                              ConvDoc(clock', text, speaker), dup)
           m == Message(ConvId(clock'), text, speaker, clock')
       IN  IF r.raised
           THEN \* add_conversation raised: add_message propagates it
                UNCHANGED <<conversation_collection, participants,
                            recent_messages, added, convReturned>>
           ELSE /\ conversation_collection' = r.coll
                /\ convReturned' = Append(convReturned, ConvId(clock'))
                /\ participants' = participants \cup {speaker}
                /\ recent_messages' = TrimRecent(Append(recent_messages, m))
                /\ added' = Append(added, m)
    /\ UNCHANGED <<current_topic, active_references, reference_collection,
                   refReturned>>

\* add_conversation raises, and add_message with it
AddMessageRaises(text, speaker, tick, dup) ==
    CollectionAdd(conversation_collection,
                  ConvDoc(clock + tick, text, speaker), dup).raised

add_message(text, speaker, tick, dup) ==
    /\ Change(FALSE)
    /\ AddMessageEffect(text, speaker, tick, dup)
    /\ UNCHANGED notCtx

\* entry_id = f"ref_{int(time.time() * 1000)}"
RefId(now) == now

RefDoc(now, content, url) == [id |-> RefId(now), content |-> content, url |-> url]

ActiveReference(id, url, now) == [id |-> id, url |-> url, timestamp |-> now]

\* what add_reference does to the store and the context
AddReferenceEffect(content, url, tick, dup) ==
    /\ ReadClock(tick)
    /\ LET r == CollectionAdd(reference_collection,
                              RefDoc(clock', content, url), dup)
       IN  IF r.raised
           THEN UNCHANGED <<reference_collection, active_references,
                            refReturned>>
           ELSE /\ reference_collection' = r.coll
                /\ refReturned' = Append(refReturned, RefId(clock'))
                /\ active_references' =
                      Append(active_references,
                             ActiveReference(RefId(clock'), url, clock'))
    /\ UNCHANGED <<conversation_collection, participants, recent_messages,
                   current_topic, convReturned, added>>

\* add_reference raises
AddReferenceRaises(content, url, tick, dup) ==
    CollectionAdd(reference_collection,
                  RefDoc(clock + tick, content, url), dup).raised

add_reference(content, url, tick, dup) ==
    /\ Change(FALSE)
    /\ AddReferenceEffect(content, url, tick, dup)
    /\ UNCHANGED notCtx

update_topic(topic) ==
    /\ Change(FALSE)
    /\ current_topic' = topic
    /\ UNCHANGED <<clock, conversation_collection, participants,
                   recent_messages, active_references, reference_collection,
                   convReturned, refReturned, added, nSameMs>>
    /\ UNCHANGED notCtx

remove_reference(ref_id) ==
    /\ Change(FALSE)
    /\ active_references' =
          SelectSeq(active_references, LAMBDA ref : ref.id # ref_id)
    /\ UNCHANGED <<clock, conversation_collection, participants,
                   recent_messages, current_topic, reference_collection,
                   convReturned, refReturned, added, nSameMs>>
    /\ UNCHANGED notCtx

\* current_context, as one value
ContextOf(p, t, m, a) ==
    [participants |-> p, current_topic |-> t, recent_messages |-> m,
     active_references |-> a]

current_context ==
    ContextOf(participants, current_topic, recent_messages, active_references)

\* what __init__ assigns to current_context
FreshContext == ContextOf({}, PyNone, <<>>, <<>>)

\* what clear_context assigns to current_context
ClearedContextKeepsReferences ==
    ContextOf({}, PyNone, <<>>, active_references)

ClearedContextKeepsMessages ==
    ContextOf({}, PyNone, recent_messages, <<>>)

ClearedContext == ContextOf({}, PyNone, <<>>, <<>>)

\* a partition after a clear_context() that emptied the store as well
StoreEmptiedByClearContext(coll) == <<>>

\* a partition after clear_context(): vector_storage is not referred to
StoreAfterClearContext(coll) == coll

clear_context ==
    /\ justCleared' = TRUE
    /\ lastRead' = NoRead
    /\ participants' = ClearedContext.participants
    /\ current_topic' = ClearedContext.current_topic
    /\ recent_messages' = ClearedContext.recent_messages
    /\ active_references' = ClearedContext.active_references
    /\ added' = <<>>
    /\ conversation_collection' = StoreAfterClearContext(conversation_collection)
    /\ reference_collection' = StoreAfterClearContext(reference_collection)
    /\ UNCHANGED <<clock, convReturned, refReturned, budget, nSameMs>>
    /\ UNCHANGED notCtx

\* VectorStorage.clear_all: both collections are deleted and created anew
clear_all ==
    /\ Change(FALSE)
    /\ conversation_collection' = <<>>
    /\ reference_collection' = <<>>
    /\ UNCHANGED <<clock, participants, recent_messages, current_topic,
                   active_references, convReturned, refReturned, added,
                   nSameMs>>
    /\ UNCHANGED notCtx

InitContext ==
    /\ clock = 0
    /\ conversation_collection = <<>>
    /\ reference_collection = <<>>
    /\ participants = FreshContext.participants
    /\ current_topic = FreshContext.current_topic
    /\ recent_messages = FreshContext.recent_messages
    /\ active_references = FreshContext.active_references
    /\ convReturned = <<>>
    /\ refReturned = <<>>
    /\ justCleared = FALSE
    /\ lastRead = NoRead
    /\ added = <<>>
    /\ nSameMs = 0

\* ------------------------------------------------------------------------
\* Reads of the store and of the context
\* ------------------------------------------------------------------------

Reverse(q) == [k \in 1..Len(q) |-> q[Len(q) + 1 - k]]

\* collection.query: an exception of the backend, or at most n documents
\* in the backend's ranking
Backends ==
    {[outcome |-> "raise", order |-> "insertion"]}
    \cup {[outcome |-> "ok", order |-> o] : o \in RankOrders}

CollectionQuery(coll, n, backend) ==
    LET ranked == IF backend.order = "reverse" THEN Reverse(coll) ELSE coll
    IN  SubSeq(ranked, 1, Min(n, Len(ranked)))

FormatConversation(doc) ==
    [text |-> doc.text, metadata |-> [speaker |-> doc.speaker], id |-> doc.id]

FormatReference(doc) ==
    [content |-> doc.content, metadata |-> [url |-> doc.url], id |-> doc.id]

\* a call's end: an exception, or a value
Raised == [raised |-> TRUE, value |-> <<>>]

Returned(value) == [raised |-> FALSE, value |-> value]

\* VectorStorage.search_conversations: the exception of the query is not
\* caught
search_conversations(coll, n, backend) ==
    IF backend.outcome = "raise"
    THEN Raised
    ELSE LET docs == CollectionQuery(coll, n, backend)
         IN  Returned([k \in 1..Len(docs) |-> FormatConversation(docs[k])])

search_references(coll, n, backend) ==
    IF backend.outcome = "raise"
    THEN Raised
    ELSE LET docs == CollectionQuery(coll, n, backend)
         IN  Returned([k \in 1..Len(docs) |-> FormatReference(docs[k])])

\* a reading of time.time(): the millisecond, and the part below it
Reading(ms, frac) == ms * TicksPerMs + frac

\* ContextManager.get_relevant_context on the context ctx
get_relevant_context(ctx, b1, b2) ==
    LET convs == search_conversations(conversation_collection, n_results, b1)
        refs == search_references(reference_collection, n_results, b2)
    IN  IF convs.raised \/ refs.raised
        THEN Raised
        ELSE Returned([recent_context |-> ctx.recent_messages,
                       relevant_conversations |-> convs.value,
                       relevant_references |-> refs.value,
                       participants |-> ctx.participants,
                       current_topic |-> ctx.current_topic])

\* ContextManager.get_conversation_summary on the context ctx; f1 and f2
\* are the two readings of the clock the expression of the duration makes,
\* the left one first
get_conversation_summary(ctx, f1, f2) ==
    Returned([participants |-> ctx.participants,
              topic |-> ctx.current_topic,
              message_count |-> Len(ctx.recent_messages),
              reference_count |-> Len(ctx.active_references),
              duration |->
                  Reading(clock, f1)
                  - (IF ctx.recent_messages # <<>>
                     THEN Reading(ctx.recent_messages[1].timestamp, 0)
                     ELSE Reading(clock, f2))])

get_active_references(ctx) == Returned(ctx.active_references)

\* the reads, and what each is called with
ReadOps == {"get_conversation_summary", "get_active_references",
            "get_relevant_context", "search_conversations",
            "search_references"}

NoBackend == [outcome |-> "ok", order |-> "insertion"]

ReadInputs(op) ==
    CASE op = "get_conversation_summary" ->
            {[f1 |-> a, f2 |-> b, b1 |-> NoBackend, b2 |-> NoBackend] :
                <<a, b>> \in {x \in (0..TicksPerMs - 1) \X (0..TicksPerMs - 1) :
                                 x[1] <= x[2]}}
      [] op = "get_relevant_context" ->
            {[f1 |-> 0, f2 |-> 0, b1 |-> x, b2 |-> y] :
                <<x, y>> \in Backends \X Backends}
      [] op \in {"search_conversations", "search_references"} ->
            {[f1 |-> 0, f2 |-> 0, b1 |-> x, b2 |-> NoBackend] : x \in Backends}
      [] OTHER -> {[f1 |-> 0, f2 |-> 0, b1 |-> NoBackend, b2 |-> NoBackend]}

\* the result of the read op with input in on the context ctx
ReadResult(ctx, op, in) ==
    CASE op = "get_conversation_summary" ->
            get_conversation_summary(ctx, in.f1, in.f2)
      [] op = "get_active_references" -> get_active_references(ctx)
      [] op = "get_relevant_context" -> get_relevant_context(ctx, in.b1, in.b2)
      [] op = "search_conversations" ->
            search_conversations(conversation_collection, n_results, in.b1)
      [] OTHER ->
            search_references(reference_collection, n_results, in.b1)

\* a read is made on the current context; reads change nothing, so the
\* history keeps one read for each state the memory is left in
Read(op, in) ==
    /\ lastRead = NoRead
    /\ lastRead' = [op |-> op, in |-> in,
                    result |-> ReadResult(current_context, op, in)]
    /\ UNCHANGED <<clock, conversation_collection, participants,
                   recent_messages, current_topic, active_references,
                   reference_collection, convReturned, refReturned,
                   justCleared, added, budget, nSameMs>>
    /\ UNCHANGED notCtx

\* the ids remove_reference is called with: one held, or one not held
RefIdsToRemove ==
    {active_references[k].id : k \in 1..Len(active_references)} \cup {clock + 1}

NextMemory ==
    \/ \E text \in Texts, speaker \in Speakers, tick \in {0, 1},
          dup \in DupOutcomes : add_message(text, speaker, tick, dup)
    \/ \E url \in Urls, tick \in {0, 1}, dup \in DupOutcomes :
          add_reference("content", url, tick, dup)
    \/ \E topic \in Topics : update_topic(topic)
    \/ \E ref_id \in RefIdsToRemove : remove_reference(ref_id)
    \/ clear_context
    \/ clear_all
    \/ \E op \in ReadOps : \E in \in ReadInputs(op) : Read(op, in)

\* ------------------------------------------------------------------------
\* Speaker (modules/speech/speaker.py)
\* ------------------------------------------------------------------------

SpeakerThreads == 1..MaxSpeakerThreads

NoItem == [n |-> 0, text |-> ""]

InitSpeaker ==
    /\ speech_queue = <<>>
    /\ is_speaking = FALSE
    /\ speech_thread = NoThread
    /\ spk = [t \in SpeakerThreads |-> [pc |-> "none", item |-> NoItem]]
    /\ spkCtl = "idle"
    /\ nSpkThreads = 0
    /\ nSpoken = 0
    /\ invoked = <<>>
    /\ cleared = {}

\* Speaker.start: a new thread only when the flag is down
SpeakerStartEffect ==
    /\ spkCtl = "idle"
    /\ IF ~is_speaking
       THEN /\ nSpkThreads < MaxSpeakerThreads
            /\ is_speaking' = TRUE
            /\ nSpkThreads' = nSpkThreads + 1
            /\ speech_thread' = nSpkThreads + 1
            /\ spk' = [spk EXCEPT ![nSpkThreads + 1].pc = "loop"]
       ELSE UNCHANGED <<is_speaking, nSpkThreads, speech_thread, spk>>
    /\ UNCHANGED <<speech_queue, spkCtl, nSpoken, invoked, cleared>>

SpeakerStart ==
    /\ SpeakerStartEffect
    /\ UNCHANGED notSpk

\* Speaker.stop, first half: the flag goes down; join only when a thread is held
SpeakerStopBegin ==
    /\ spkCtl = "idle"
    /\ is_speaking' = FALSE
    /\ spkCtl' = IF speech_thread # NoThread THEN "joining" ELSE "idle"
    /\ UNCHANGED <<speech_queue, speech_thread, spk, nSpkThreads, nSpoken,
                   invoked, cleared>>
    /\ UNCHANGED notSpk

\* join(timeout=1.0) returns because the thread has ended
SpeakerStopJoined ==
    /\ spkCtl = "joining"
    /\ spk[speech_thread].pc = "done"
    /\ speech_thread' = NoThread
    /\ spkCtl' = "idle"
    /\ UNCHANGED <<speech_queue, is_speaking, spk, nSpkThreads, nSpoken,
                   invoked, cleared>>
    /\ UNCHANGED notSpk

\* join(timeout=1.0) returns because the second has passed: the thread is
\* still inside convert()/play(), which take as long as the audio lasts
SpeakerStopTimeout ==
    /\ spkCtl = "joining"
    /\ spk[speech_thread].pc = "playing"
    /\ speech_thread' = NoThread
    /\ spkCtl' = "idle"
    /\ UNCHANGED <<speech_queue, is_speaking, spk, nSpkThreads, nSpoken,
                   invoked, cleared>>
    /\ UNCHANGED notSpk

\* speak, had it no test of its argument
SpeakPutsAnyText(text) == FALSE

\* "if not text: return"
SpeakReturnsEarly(text) == text = ""

\* Speaker.speak: empty text returns at once, any other text is put
SpeakEffect(text) ==
    /\ IF SpeakReturnsEarly(text)
       THEN UNCHANGED <<speech_queue, nSpoken>>
       ELSE /\ nSpoken < MaxSpeak
            /\ nSpoken' = nSpoken + 1
            /\ speech_queue' = Append(speech_queue,
                                      [n |-> nSpoken + 1, text |-> text])
    /\ UNCHANGED <<is_speaking, speech_thread, spk, spkCtl, nSpkThreads,
                   invoked, cleared>>

speak(text) ==
    /\ SpeakEffect(text)
    /\ UNCHANGED notSpk

\* Speaker.clear_queue: get_nowait() until the queue is empty
clear_queue ==
    /\ speech_queue' = <<>>
    /\ cleared' = cleared \cup {speech_queue[i].n : i \in 1..Len(speech_queue)}
    /\ UNCHANGED <<is_speaking, speech_thread, spk, spkCtl, nSpkThreads,
                   nSpoken, invoked>>
    /\ UNCHANGED notSpk

\* process_speech_queue, "while self.is_speaking"
SpkWhile(t) ==
    /\ spk[t].pc = "loop"
    /\ spk' = [spk EXCEPT ![t].pc = IF is_speaking THEN "get" ELSE "done"]
    /\ UNCHANGED <<speech_queue, is_speaking, speech_thread, spkCtl,
                   nSpkThreads, nSpoken, invoked, cleared>>
    /\ UNCHANGED notSpk

\* speech_queue.get(timeout=1.0) returns the head
SpkGet(t) ==
    /\ spk[t].pc = "get"
    /\ speech_queue # <<>>
    /\ spk' = [spk EXCEPT ![t] = [pc |-> "got", item |-> Head(speech_queue)]]
    /\ speech_queue' = Tail(speech_queue)
    /\ UNCHANGED <<is_speaking, speech_thread, spkCtl, nSpkThreads, nSpoken,
                   invoked, cleared>>
    /\ UNCHANGED notSpk

\* speech_queue.get(timeout=1.0) raises queue.Empty: continue
SpkGetEmpty(t) ==
    /\ spk[t].pc = "get"
    /\ speech_queue = <<>>
    /\ spk' = [spk EXCEPT ![t].pc = "loop"]
    /\ UNCHANGED <<speech_queue, is_speaking, speech_thread, spkCtl,
                   nSpkThreads, nSpoken, invoked, cleared>>
    /\ UNCHANGED notSpk

\* "if text:" and the call of text_to_speech.convert
SpkConvert(t) ==
    /\ spk[t].pc = "got"
    /\ IF spk[t].item.text # ""
       THEN /\ invoked' = Append(invoked, spk[t].item.n)
            /\ spk' = [spk EXCEPT ![t].pc = "playing"]
       ELSE /\ spk' = [spk EXCEPT ![t] = [pc |-> "loop", item |-> NoItem]]
            /\ UNCHANGED invoked
    /\ UNCHANGED <<speech_queue, is_speaking, speech_thread, spkCtl,
                   nSpkThreads, nSpoken, cleared>>
    /\ UNCHANGED notSpk

\* convert() and play() return; sleep(0.5) and the loop goes on
SpkPlayEnd(t) ==
    /\ spk[t].pc = "playing"
    /\ spk' = [spk EXCEPT ![t] = [pc |-> "loop", item |-> NoItem]]
    /\ UNCHANGED <<speech_queue, is_speaking, speech_thread, spkCtl,
                   nSpkThreads, nSpoken, invoked, cleared>>
    /\ UNCHANGED notSpk

\* convert() or play() raises: control goes to "except Exception as e"
SpkPlayRaise(t) ==
    /\ spk[t].pc = "playing"
    /\ spk' = [spk EXCEPT ![t].pc = "except"]
    /\ UNCHANGED <<speech_queue, is_speaking, speech_thread, spkCtl,
                   nSpkThreads, nSpoken, invoked, cleared>>
    /\ UNCHANGED notSpk

\* where the thread goes after the handler, had the handler re-raised
AfterSpeechErrorEnds == "done"

\* where the thread goes after the handler: back to the while
AfterSpeechError == "loop"

\* the handler prints the error, nothing else
SpkExcept(t) ==
    /\ spk[t].pc = "except"
    /\ spk' = [spk EXCEPT ![t] = [pc |-> AfterSpeechError, item |-> NoItem]]
    /\ UNCHANGED <<speech_queue, is_speaking, speech_thread, spkCtl,
                   nSpkThreads, nSpoken, invoked, cleared>>
    /\ UNCHANGED notSpk

\* a step of the speech thread t
SpkStep(t) ==
    \/ SpkWhile(t)
    \/ SpkGet(t)
    \/ SpkGetEmpty(t)
    \/ SpkConvert(t)
    \/ SpkPlayEnd(t)
    \/ SpkPlayRaise(t)
    \/ SpkExcept(t)

NextSpeaker ==
    \/ SpeakerStart
    \/ SpeakerStopBegin
    \/ SpeakerStopJoined
    \/ SpeakerStopTimeout
    \/ \E text \in SpeakTexts : speak(text)
    \/ clear_queue
    \/ \E t \in SpeakerThreads :
          \/ SpkWhile(t)
          \/ SpkGet(t)
          \/ SpkGetEmpty(t)
          \/ SpkConvert(t)
          \/ SpkPlayEnd(t)
          \/ SpkPlayRaise(t)
          \/ SpkExcept(t)

\* ------------------------------------------------------------------------
\* AudioListener (modules/speech/listener.py)
\* ------------------------------------------------------------------------

ListenerThreads == 1..MaxListenerThreads

\* range(int(self.sample_rate * 2 / 1024)): the iterations of one collection
ChunksPerCycle == (sample_rate * 2) \div 1024

\* str.strip() of the texts the engine returns
Strip(text) ==
    CASE text = " hi " -> "hi"
      [] text = " "    -> ""
      [] OTHER         -> text

InitListener ==
    /\ sample_rate \in SampleRates
    /\ audio_queue = <<>>
    /\ is_listening = FALSE
    /\ stream = "none"
    /\ process_thread = NoThread
    /\ lis = [t \in ListenerThreads |->
                 [pc |-> "none", i |-> 0, audio_data |-> <<>>,
                  cut |-> FALSE]]
    /\ lisCtl = "idle"
    /\ nLisThreads = 0
    /\ nFrames = 0
    /\ flagCleared = FALSE
    /\ sttCalls = <<>>
    /\ callbacks = <<>>
    /\ delivered = <<>>
    /\ lisStopped = FALSE
    /\ last_transcript = ""
    /\ start_error = PyNone
    /\ lastResult = PyNone

\* the threads after "self.is_listening = False": history of the
\* collections that were in progress at that moment
FlagLowered(threads) ==
    [t \in ListenerThreads |->
        IF threads[t].pc \in {"for", "get", "check"}
        THEN [threads[t] EXCEPT !.cut = TRUE]
        ELSE threads[t]]

\* what "except Exception as e" of start() raises
StartError(device) ==
    "Error starting audio: "
    \o (IF device = "nodevice" THEN "No audio input devices found"
        ELSE "Error opening InputStream")

\* the flag after the except branch of start(): "self.is_listening = False"
FailedStartFlagKept(flag) == flag

FailedStartFlag(flag) == FALSE

\* AudioListener.start: with a device, the flag goes up, the stream is
\* opened and a thread is started; without one (or when the stream cannot
\* be opened) the except branch lowers the flag and closes the stream held
ListenerStartEffect(device) ==
    /\ lisCtl = "idle"
    /\ IF device = "ok"
       THEN /\ nLisThreads < MaxListenerThreads
            /\ is_listening' = TRUE
            /\ stream' = "active"
            /\ nLisThreads' = nLisThreads + 1
            /\ process_thread' = nLisThreads + 1
            /\ lis' = [lis EXCEPT ![nLisThreads + 1].pc = "loop"]
            /\ lisStopped' = FALSE
            /\ start_error' = PyNone
            /\ UNCHANGED flagCleared
       ELSE /\ is_listening' = FailedStartFlag(is_listening)
            /\ stream' = IF stream = "none" THEN "none" ELSE "closed"
            /\ flagCleared' = (flagCleared \/ is_listening)
            /\ start_error' = StartError(device)
            /\ lis' = FlagLowered(lis)
            /\ UNCHANGED <<nLisThreads, process_thread, lisStopped>>
    /\ UNCHANGED <<sample_rate, audio_queue, lisCtl, nFrames, sttCalls,
                   callbacks, delivered>>
    /\ UNCHANGED <<last_transcript, lastResult>>

ListenerStart(device) ==
    /\ ListenerStartEffect(device)
    /\ UNCHANGED notLis

\* AudioListener.stop, up to the join: flag down, stream stopped and closed
ListenerStopBegin ==
    /\ lisCtl = "idle"
    /\ is_listening' = FALSE
    /\ flagCleared' = (flagCleared \/ is_listening)
    /\ stream' = IF stream = "none" THEN "none" ELSE "closed"
    /\ lisCtl' = IF process_thread # NoThread THEN "joining" ELSE "idle"
    /\ lisStopped' = (process_thread = NoThread)
    /\ lis' = FlagLowered(lis)
    /\ UNCHANGED <<sample_rate, audio_queue, process_thread,
                   nLisThreads, nFrames, sttCalls, callbacks, delivered>>
    /\ UNCHANGED <<last_transcript, start_error, lastResult>>
    /\ UNCHANGED notLis

\* join(timeout=1.0) returns because the thread has ended
ListenerStopJoined ==
    /\ lisCtl = "joining"
    /\ lis[process_thread].pc = "done"
    /\ lisCtl' = "idle"
    /\ lisStopped' = TRUE
    /\ UNCHANGED <<sample_rate, audio_queue, is_listening, stream,
                   process_thread, lis, nLisThreads, nFrames, flagCleared,
                   sttCalls, callbacks, delivered>>
    /\ UNCHANGED <<last_transcript, start_error, lastResult>>
    /\ UNCHANGED notLis

\* join(timeout=1.0) returns because the second has passed: the thread is
\* still inside model.transcribe
ListenerStopTimeout ==
    /\ lisCtl = "joining"
    /\ lis[process_thread].pc = "stt"
    /\ lisCtl' = "idle"
    /\ lisStopped' = TRUE
    /\ UNCHANGED <<sample_rate, audio_queue, is_listening, stream,
                   process_thread, lis, nLisThreads, nFrames, flagCleared,
                   sttCalls, callbacks, delivered>>
    /\ UNCHANGED <<last_transcript, start_error, lastResult>>
    /\ UNCHANGED notLis

\* audio_callback: the running stream delivers the next frame of 1024
\* samples; it is queued while the flag is up
audio_callback ==
    /\ stream = "active"
    /\ nFrames < MaxFrames
    /\ nFrames' = nFrames + 1
    /\ audio_queue' = IF is_listening
                      THEN Append(audio_queue, nFrames + 1)
                      ELSE audio_queue
    /\ UNCHANGED <<sample_rate, is_listening, stream, process_thread, lis,
                   lisCtl, nLisThreads, flagCleared, sttCalls, callbacks, delivered,
                   lisStopped>>
    /\ UNCHANGED <<last_transcript, start_error, lastResult>>
    /\ UNCHANGED notLis

\* the input device drops while the stream is open: the stream delivers
\* no more frames; nothing in the listener is told
DeviceDrop ==
    /\ stream = "active"
    /\ stream' = "dropped"
    /\ UNCHANGED <<sample_rate, audio_queue, is_listening, process_thread,
                   lis, lisCtl, nLisThreads, nFrames, flagCleared, sttCalls,
                   callbacks, delivered, lisStopped, last_transcript,
                   start_error, lastResult>>
    /\ UNCHANGED notLis

\* process_audio, "while self.is_listening": a new collection starts
LisWhile(t) ==
    /\ lis[t].pc = "loop"
    /\ lis' = [lis EXCEPT ![t] =
                  IF is_listening
                  THEN [pc |-> "for", i |-> 0, audio_data |-> <<>>,
                        cut |-> FALSE]
                  ELSE [pc |-> "done", i |-> 0, audio_data |-> <<>>,
                        cut |-> FALSE]]
    /\ UNCHANGED <<sample_rate, audio_queue, is_listening, stream,
                   process_thread, lisCtl, nLisThreads, nFrames, flagCleared,
                   sttCalls, callbacks, delivered,
                   lisStopped>>
    /\ UNCHANGED <<last_transcript, start_error, lastResult>>
    /\ UNCHANGED notLis

\* "for _ in range(...)": the next iteration, the end of the range, or the
\* break when the flag is down
LisFor(t) ==
    /\ lis[t].pc = "for"
    /\ lis' = [lis EXCEPT ![t] =
                  IF lis[t].i >= ChunksPerCycle \/ ~is_listening
                  THEN [@ EXCEPT !.pc = "check"]
                  ELSE [@ EXCEPT !.pc = "get", !.i = @ + 1]]
    /\ UNCHANGED <<sample_rate, audio_queue, is_listening, stream,
                   process_thread, lisCtl, nLisThreads, nFrames, flagCleared,
                   sttCalls, callbacks, delivered,
                   lisStopped>>
    /\ UNCHANGED <<last_transcript, start_error, lastResult>>
    /\ UNCHANGED notLis

\* audio_queue.get(timeout=0.5) returns a frame, which is appended
LisGet(t) ==
    /\ lis[t].pc = "get"
    /\ audio_queue # <<>>
    /\ lis' = [lis EXCEPT ![t].pc = "for",
                          ![t].audio_data = Append(@, Head(audio_queue))]
    /\ audio_queue' = Tail(audio_queue)
    /\ UNCHANGED <<sample_rate, is_listening, stream, process_thread, lisCtl,
                   nLisThreads, nFrames, flagCleared, sttCalls, callbacks, delivered,
                   lisStopped>>
    /\ UNCHANGED <<last_transcript, start_error, lastResult>>
    /\ UNCHANGED notLis

\* audio_queue.get(timeout=0.5) raises queue.Empty: continue
LisGetEmpty(t) ==
    /\ lis[t].pc = "get"
    /\ audio_queue = <<>>
    /\ lis' = [lis EXCEPT ![t].pc = "for"]
    /\ UNCHANGED <<sample_rate, audio_queue, is_listening, stream,
                   process_thread, lisCtl, nLisThreads, nFrames, flagCleared,
                   sttCalls, callbacks, delivered,
                   lisStopped>>
    /\ UNCHANGED <<last_transcript, start_error, lastResult>>
    /\ UNCHANGED notLis

\* "if audio_data and self.is_listening": the audio is concatenated,
\* written out and model.transcribe is called on it
LisCheck(t) ==
    /\ lis[t].pc = "check"
    /\ IF lis[t].audio_data # <<>> /\ is_listening
       THEN /\ lis' = [lis EXCEPT ![t].pc = "stt"]
            /\ sttCalls' = Append(sttCalls, lis[t].audio_data)
       ELSE /\ lis' = [lis EXCEPT ![t].pc = "loop"]
            /\ UNCHANGED sttCalls
    /\ UNCHANGED <<sample_rate, audio_queue, is_listening, stream,
                   process_thread, lisCtl, nLisThreads, nFrames, flagCleared,
                   callbacks, delivered, lisStopped>>
    /\ UNCHANGED <<last_transcript, start_error, lastResult>>
    /\ UNCHANGED notLis

\* the text of a result: its "text" stripped, nothing when the engine
\* raised
TranscriptUnstripped(result) == IF result = "raise" THEN "" ELSE result

Transcript(result) == IF result = "raise" THEN "" ELSE Strip(result)

\* where the thread goes after the try/except around model.transcribe
AfterTranscribeCrash(result) == IF result = "raise" THEN "done" ELSE "loop"

AfterTranscribe(result) == "loop"

\* model.transcribe returns: a text that is not blank once stripped goes to
\* the callback; a blank one, or an exception, is printed only
LisTranscribed(t, result) ==
    /\ lis[t].pc = "stt"
    /\ lis' = [lis EXCEPT ![t].pc = AfterTranscribe(result)]
    /\ lastResult' = result
    /\ IF Transcript(result) # ""
       THEN /\ last_transcript' = Transcript(result)
            /\ callbacks' = Append(callbacks, Transcript(result))
            /\ delivered' = Append(delivered, lis[t].audio_data)
       ELSE UNCHANGED <<last_transcript, callbacks, delivered>>
    /\ UNCHANGED <<sample_rate, audio_queue, is_listening, stream,
                   process_thread, lisCtl, nLisThreads, nFrames, flagCleared,
                   sttCalls, lisStopped, start_error>>
    /\ UNCHANGED notLis

\* a step of the worker thread t
LisStep(t) ==
    \/ LisWhile(t)
    \/ LisFor(t)
    \/ LisGet(t)
    \/ LisGetEmpty(t)
    \/ LisCheck(t)
    \/ \E result \in SttResults : LisTranscribed(t, result)

NextListener ==
    \/ \E device \in DeviceOutcomes : ListenerStart(device)
    \/ ListenerStopBegin
    \/ ListenerStopJoined
    \/ ListenerStopTimeout
    \/ audio_callback
    \/ \E t \in ListenerThreads :
          \/ LisWhile(t)
          \/ LisFor(t)
          \/ LisGet(t)
          \/ LisGetEmpty(t)
          \/ LisCheck(t)
          \/ \E result \in SttResults : LisTranscribed(t, result)

\* ------------------------------------------------------------------------
\* ThoughtEngine.process_thought (modules/ai/thinking.py)
\* ------------------------------------------------------------------------

\* sequences over S of length 0..n
SeqsUpTo(S, n) == UNION {[1..k -> S] : k \in 0..n}

\* sequences without repetition
NoRepeat(q) == \A i, j \in 1..Len(q) : i # j => q[i] # q[j]

\* What _analyze_context returns.  On an exception of the crew:
\* {'error', 'status': 'error'}, which holds no 'analysis'.  Otherwise
\* {'analysis': result, 'status': 'success'}, where the crew's result is a
\* text, or a mapping that may list 'areas_needing_clarification'.
AnalysisError == [status |-> "error", kind |-> "missing", needs |-> <<>>]

AnalysisOutcomes ==
    {AnalysisError,
     [status |-> "success", kind |-> "text", needs |-> <<>>],
     [status |-> "success", kind |-> "dict_nokey", needs |-> <<>>]}
    \cup {[status |-> "success", kind |-> "dict", needs |-> q] :
             q \in {q \in SeqsUpTo(Needs, Cardinality(Needs)) : NoRepeat(q)}}

\* The items of a search result: mappings, whose keys may be missing, or
\* something that is no mapping (a string, as the keys of a response
\* mapping are when it is iterated)
ResultItems ==
    {[mapping |-> TRUE, title |-> "T1", url |-> "U1", snippet |-> "S1"],
     [mapping |-> TRUE, title |-> "T2", url |-> "U2", snippet |-> PyNone],
     [mapping |-> FALSE, title |-> PyNone, url |-> PyNone, snippet |-> PyNone]}

NoSearch == [status |-> PyNone, results |-> <<>>]

\* What _search_internet returns: {'results', 'status': 'success'}, or
\* {'error', 'status': 'error'} when the client raised
SearchOutcomes ==
    {[status |-> "error", results |-> <<>>]}
    \cup {[status |-> "success", results |-> r] :
             r \in SeqsUpTo(ResultItems, MaxResults)}

\* Python's truth value of an optional text
Truthy(text) == text \notin {PyNone, ""}

\* The outer "except Exception as e" of process_thought
OuterExceptKeyErrorOnly(exc) ==
    IF exc = "KeyError"
    THEN [outcome |-> "returned",
          response |-> "Error in thought process: " \o exc,
          references |-> <<>>]
    ELSE [outcome |-> "raised", response |-> PyNone, references |-> <<>>]

OuterExcept(exc) ==
    [outcome |-> "returned",
     response |-> "Error in thought process: " \o exc,
     references |-> <<>>]

\* analysis.get('analysis', {}).get('areas_needing_clarification'):
\* an exception when the analysis is a text, else the list (None when the
\* key is missing)
NeedsOf(analysis) ==
    CASE analysis.kind = "missing"    -> [exc |-> "", value |-> <<>>]
      [] analysis.kind = "text"       -> [exc |-> "AttributeError", value |-> <<>>]
      [] analysis.kind = "dict_nokey" -> [exc |-> "", value |-> <<>>]
      [] OTHER                        -> [exc |-> "", value |-> analysis.needs]

\* "if query or (...)": the search string, or no search, or an exception;
\* "or" evaluates its right side only when the query is not truthy
SearchDecisionLastNeed(query, analysis) ==
    IF Truthy(query)
    THEN [exc |-> "", search |-> TRUE, search_query |-> query]
    ELSE LET n == NeedsOf(analysis)
         IN  IF n.exc # ""
             THEN [exc |-> n.exc, search |-> FALSE, search_query |-> PyNone]
             ELSE IF n.value # <<>>
                  THEN [exc |-> "", search |-> TRUE,
                        search_query |-> n.value[Len(n.value)]]
                  ELSE [exc |-> "", search |-> FALSE, search_query |-> PyNone]

SearchDecision(query, analysis) ==
    IF Truthy(query)
    THEN [exc |-> "", search |-> TRUE, search_query |-> query]
    ELSE LET n == NeedsOf(analysis)
         IN  IF n.exc # ""
             THEN [exc |-> n.exc, search |-> FALSE, search_query |-> PyNone]
             ELSE IF n.value # <<>>
                  THEN [exc |-> "", search |-> TRUE,
                        search_query |-> n.value[1]]
                  ELSE [exc |-> "", search |-> FALSE, search_query |-> PyNone]

\* result.get(key, '')
GetOrEmpty(value) == IF value = PyNone THEN "" ELSE value

Reference(item) ==
    [title |-> GetOrEmpty(item.title),
     url |-> GetOrEmpty(item.url),
     snippet |-> GetOrEmpty(item.snippet)]

\* step 4, had it indexed 'results' without looking at the status: a
\* failed search holds no such key
ExtractReferencesByIndex(search_results) ==
    IF search_results.status = "error"
    THEN [exc |-> "KeyError", references |-> <<>>]
    ELSE IF \E k \in 1..Len(search_results.results) :
               ~search_results.results[k].mapping
         THEN [exc |-> "AttributeError", references |-> <<>>]
         ELSE [exc |-> "",
               references |-> [k \in 1..Len(search_results.results) |->
                                  Reference(search_results.results[k])]]

\* step 4: the references of a successful search, an exception when an
\* item has no get(), the empty list without a successful search
ExtractReferences(search_results) ==
    IF search_results.status = "success"
    THEN IF \E k \in 1..Len(search_results.results) :
               ~search_results.results[k].mapping
         THEN [exc |-> "AttributeError", references |-> <<>>]
         ELSE [exc |-> "",
               references |-> [k \in 1..Len(search_results.results) |->
                                  Reference(search_results.results[k])]]
    ELSE [exc |-> "", references |-> <<>>]

\* _generate_response: the crew's text, or the text of its except branch
GeneratedText(out) ==
    IF out = "raise"
    THEN "Error generating response: " \o "backend unavailable"
    ELSE out

Pending == [outcome |-> "pending", response |-> PyNone, references |-> <<>>]

InitThought ==
    /\ thPc = "idle"
    /\ thQuery = PyNone
    /\ thAnalysis = AnalysisError
    /\ thSearchResults = NoSearch
    /\ thSearches = <<>>
    /\ thResponse = PyNone
    /\ thGenFailed = FALSE
    /\ thResult = Pending

\* process_thought is called
ThCall(query) ==
    /\ thPc = "idle"
    /\ thPc' = "analyze"
    /\ thQuery' = query
    /\ UNCHANGED <<thAnalysis, thSearchResults, thSearches, thResponse,
                   thGenFailed, thResult>>
    /\ UNCHANGED notTh

\* 1. analysis = await self._analyze_context(...)
ThAnalyze(out) ==
    /\ thPc = "analyze"
    /\ thAnalysis' = out
    /\ thPc' = "decide"
    /\ UNCHANGED <<thQuery, thSearchResults, thSearches, thResponse,
                   thGenFailed, thResult>>
    /\ UNCHANGED notTh

\* 2. the search decision
ThDecide ==
    /\ thPc = "decide"
    /\ LET d == SearchDecision(thQuery, thAnalysis)
       IN  IF d.exc # ""
           THEN /\ thResult' = OuterExcept(d.exc)
                /\ thPc' = "done"
                /\ UNCHANGED thSearches
           ELSE IF d.search
                THEN /\ thSearches' = Append(thSearches, d.search_query)
                     /\ thPc' = "search"
                     /\ UNCHANGED thResult
                ELSE /\ thPc' = "generate"
                     /\ UNCHANGED <<thSearches, thResult>>
    /\ UNCHANGED <<thQuery, thAnalysis, thSearchResults, thResponse,
                   thGenFailed>>
    /\ UNCHANGED notTh

\* search_results = await self._search_internet(search_query)
ThSearch(out) ==
    /\ thPc = "search"
    /\ thSearchResults' = out
    /\ thPc' = "generate"
    /\ UNCHANGED <<thQuery, thAnalysis, thSearches, thResponse, thGenFailed,
                   thResult>>
    /\ UNCHANGED notTh

\* 3. response = await self._generate_response(...)
ThGenerate(out) ==
    /\ thPc = "generate"
    /\ thResponse' = GeneratedText(out)
    /\ thGenFailed' = (out = "raise")
    /\ thPc' = "extract"
    /\ UNCHANGED <<thQuery, thAnalysis, thSearchResults, thSearches,
                   thResult>>
    /\ UNCHANGED notTh

\* 4. the references, and "return response, references"
ThExtract ==
    /\ thPc = "extract"
    /\ LET x == ExtractReferences(thSearchResults)
       IN  thResult' = IF x.exc # ""
                       THEN OuterExcept(x.exc)
                       ELSE [outcome |-> "returned",
                             response |-> thResponse,
                             references |-> x.references]
    /\ thPc' = "done"
    /\ UNCHANGED <<thQuery, thAnalysis, thSearchResults, thSearches,
                   thResponse, thGenFailed>>
    /\ UNCHANGED notTh

\* the caller has the result; the engine is ready for the next call
ThReturn ==
    /\ thPc = "done"
    /\ thResult.outcome = "returned"
    /\ thPc' = "idle"
    /\ thQuery' = PyNone
    /\ thAnalysis' = AnalysisError
    /\ thSearchResults' = NoSearch
    /\ thSearches' = <<>>
    /\ thResponse' = PyNone
    /\ thGenFailed' = FALSE
    /\ thResult' = Pending
    /\ UNCHANGED notTh

NextThought ==
    \/ \E query \in Queries : ThCall(query)
    \/ \E out \in AnalysisOutcomes : ThAnalyze(out)
    \/ ThDecide
    \/ \E out \in SearchOutcomes : ThSearch(out)
    \/ \E out \in GenOutcomes : ThGenerate(out)
    \/ ThExtract
    \/ ThReturn

\* ------------------------------------------------------------------------
\* Specifications of the Speaker and of the AudioListener, and their claims
\* ------------------------------------------------------------------------

\* ------------------------------------------------------------------------
\* The threads of the application inside ContextManager
\* ------------------------------------------------------------------------

\* the threads that call add_message: the listener's worker through the
\* callback, and the thread that runs the processing of a transcript
Callers == {"callback", "processing"}

NoCall == [pc |-> "idle", n |-> 0, text |-> "", speaker |-> "", id |-> 0,
           now |-> 0]

\* st.session_state.error_message = None
NoError == 0

NoTask == [pc |-> "none", response |-> "", refs |-> <<>>]

NoHang == [is |-> FALSE, frames |-> 0, delivered |-> 0, played |-> 0]

InitApp ==
    /\ amCall = [c \in Callers |-> NoCall]
    /\ nAmCalls = 0
    /\ amIds = <<>>
    /\ session_listening = FALSE
    /\ error_message = NoError
    /\ nErrors = 0
    /\ shown = <<>>
    /\ renderPc = "idle"
    /\ tasks = <<>>
    /\ nHandled = 0
    /\ task = NoTask
    /\ ended = <<>>
    /\ hang = NoHang

\* add_message is invoked
AmInvoke(c, text, speaker) ==
    /\ amCall[c].pc = "idle"
    /\ nAmCalls < MaxAmCalls
    /\ nAmCalls' = nAmCalls + 1
    /\ amIds' = Append(amIds, 0)
    /\ amCall' = [amCall EXCEPT ![c] = [NoCall EXCEPT !.pc = "store",
                                                      !.n = nAmCalls + 1,
                                                      !.text = text,
                                                      !.speaker = speaker]]
    /\ UNCHANGED <<ctxVars, spkVars, lisVars, thVars, sessVars, taskVars>>

\* "message_id = self.vector_storage.add_conversation(...)", the clock
\* having advanced since the last reading
AmStore(c) ==
    /\ amCall[c].pc = "store"
    /\ clock' = clock + 1
    /\ conversation_collection' =
           CollectionAdd(conversation_collection,
                         ConvDoc(clock', amCall[c].text, amCall[c].speaker),
                         "raise").coll
    /\ convReturned' = Append(convReturned, ConvId(clock'))
    /\ amIds' = [amIds EXCEPT ![amCall[c].n] = ConvId(clock')]
    /\ amCall' = [amCall EXCEPT ![c].pc = "participants",
                                ![c].id = ConvId(clock')]
    /\ lastRead' = NoRead
    /\ UNCHANGED <<participants, recent_messages, current_topic,
                   active_references, reference_collection, refReturned,
                   justCleared, added, budget, nSameMs, nAmCalls>>
    /\ UNCHANGED <<spkVars, lisVars, thVars, sessVars, taskVars>>

\* "self.current_context['participants'].add(speaker)"
AmParticipants(c) ==
    /\ amCall[c].pc = "participants"
    /\ participants' = participants \cup {amCall[c].speaker}
    /\ amCall' = [amCall EXCEPT ![c].pc = "append"]
    /\ lastRead' = NoRead
    /\ UNCHANGED <<clock, conversation_collection, recent_messages,
                   current_topic, active_references, reference_collection,
                   convReturned, refReturned, justCleared, added, budget,
                   nSameMs, nAmCalls, amIds>>
    /\ UNCHANGED <<spkVars, lisVars, thVars, sessVars, taskVars>>

\* "self.current_context['recent_messages'].append({...})", with a new
\* reading of the clock
AmAppend(c) ==
    /\ amCall[c].pc = "append"
    /\ clock' = clock + 1
    /\ recent_messages' =
           Append(recent_messages,
                  Message(amCall[c].id, amCall[c].text, amCall[c].speaker,
                          clock'))
    /\ amCall' = [amCall EXCEPT ![c].pc = "trim", ![c].now = clock']
    /\ lastRead' = NoRead
    /\ justCleared' = FALSE
    /\ UNCHANGED <<conversation_collection, participants, current_topic,
                   active_references, reference_collection, convReturned,
                   refReturned, added, budget, nSameMs, nAmCalls, amIds>>
    /\ UNCHANGED <<spkVars, lisVars, thVars, sessVars, taskVars>>

\* "if len(...) > self.max_recent_messages: ...pop(0)" and the return
AmTrim(c) ==
    /\ amCall[c].pc = "trim"
    /\ recent_messages' = TrimRecent(recent_messages)
    /\ added' = Append(added, Message(amCall[c].id, amCall[c].text,
                                      amCall[c].speaker, amCall[c].now))
    /\ amCall' = [amCall EXCEPT ![c] = NoCall]
    /\ lastRead' = NoRead
    /\ UNCHANGED <<clock, conversation_collection, participants,
                   current_topic, active_references, reference_collection,
                   convReturned, refReturned, justCleared, budget, nSameMs,
                   nAmCalls, amIds>>
    /\ UNCHANGED <<spkVars, lisVars, thVars, sessVars, taskVars>>

\* the threads above, and the thread of the page calling clear_context
NextRace ==
    \/ \E c \in Callers, text \in Texts, speaker \in Speakers :
          AmInvoke(c, text, speaker)
    \/ \E c \in Callers : AmStore(c)
    \/ \E c \in Callers : AmParticipants(c)
    \/ \E c \in Callers : AmAppend(c)
    \/ \E c \in Callers : AmTrim(c)
    \/ clear_context

\* ------------------------------------------------------------------------
\* VirtualTeamMemberApp
\* ------------------------------------------------------------------------

\* "st.session_state.error_message = error_msg"
WriteError ==
    /\ nErrors < MaxErrors
    /\ nErrors' = nErrors + 1
    /\ error_message' = nErrors + 1

\* the variables of the listener but the session's transcript
lisButTranscript ==
    <<sample_rate, audio_queue, is_listening, stream, process_thread, lis,
      lisCtl, nLisThreads, nFrames, flagCleared, sttCalls, callbacks,
      delivered, lisStopped, start_error, lastResult>>

\* the Start button: start_listening, and the except branch of
\* render_main_content when it raises
AppStartListening(device) ==
    /\ ~session_listening
    /\ renderPc = "idle"
    /\ device = "ok" => nLisThreads < MaxCaptureStarts
    /\ ListenerStartEffect(device)
    /\ IF device = "ok"
       THEN /\ session_listening' = TRUE
            /\ SpeakerStartEffect
            /\ UNCHANGED <<error_message, nErrors>>
       ELSE /\ session_listening' = FALSE
            /\ WriteError
            /\ UNCHANGED spkVars
    /\ UNCHANGED <<shown, renderPc>>
    /\ UNCHANGED <<ctxVars, thVars, raceVars, taskVars>>

\* handle_speech_input does not wait for the task it creates:
\* "loop.create_task(...)" returns at once
CallbackWaitsForTask(busy) == busy

CallbackWaits(busy) == FALSE

\* a task created by handle_speech_input has not ended
TaskBusy == Len(ended) < Len(tasks)

\* the listener's worker, once its callback has returned
AppLisStep(t) ==
    /\ nHandled = Len(callbacks)
    /\ ~CallbackWaits(TaskBusy)
    /\ LisStep(t)

\* handle_speech_input, on the worker that transcribed the text: the turn
\* is added and a task is created, or the exception is written to the
\* session
handle_speech_input(tick, dup) ==
    /\ nHandled < Len(callbacks)
    /\ nHandled' = nHandled + 1
    /\ last_transcript' = callbacks[nHandled + 1]
    /\ AddMessageEffect(callbacks[nHandled + 1], "Human", tick, dup)
    /\ lastRead' = NoRead
    /\ IF AddMessageRaises(callbacks[nHandled + 1], "Human", tick, dup)
       THEN /\ WriteError
            /\ UNCHANGED <<tasks, justCleared>>
       ELSE /\ tasks' = Append(tasks, callbacks[nHandled + 1])
            /\ justCleared' = FALSE
            /\ UNCHANGED <<error_message, nErrors>>
    /\ UNCHANGED <<budget, lisButTranscript, session_listening, shown,
                   renderPc, task, ended, hang>>
    /\ UNCHANGED <<spkVars, thVars, raceVars>>

\* render_ui: "if st.session_state.error_message: st.error(...)"
RenderShow ==
    /\ renderPc = "idle"
    /\ error_message # NoError
    /\ shown' = Append(shown, error_message)
    /\ renderPc' = "clear"
    /\ UNCHANGED <<session_listening, error_message, nErrors>>
    /\ UNCHANGED <<ctxVars, spkVars, lisVars, thVars, raceVars, taskVars>>

\* the field after "st.session_state.error_message = None"
AfterShownKept(e) == e

AfterShown(e) == NoError

\* render_ui: "st.session_state.error_message = None"
RenderClear ==
    /\ renderPc = "clear"
    /\ error_message' = AfterShown(error_message)
    /\ renderPc' = "idle"
    /\ UNCHANGED <<session_listening, nErrors, shown>>
    /\ UNCHANGED <<ctxVars, spkVars, lisVars, thVars, raceVars, taskVars>>

\* the backends as the application's specification draws them
AppAnalyses ==
    {AnalysisError, [status |-> "success", kind |-> "dict", needs |-> <<"n1">>]}

AppSearches == {r \in SearchOutcomes : Len(r.results) <= 1}

\* the event loop takes the next task: async_process_input up to its await,
\* get_relevant_context and the call of process_thought without a query
AppTaskStart(b1, b2) ==
    /\ task.pc = "none"
    /\ TaskBusy
    /\ thPc = "idle"
    /\ IF get_relevant_context(current_context, b1, b2).raised
       THEN /\ WriteError
            /\ ended' = Append(ended, [spoke |-> FALSE])
            /\ UNCHANGED <<task, thPc, thQuery>>
       ELSE /\ task' = [NoTask EXCEPT !.pc = "thinking"]
            /\ thPc' = "analyze"
            /\ thQuery' = PyNone
            /\ UNCHANGED <<error_message, nErrors, ended>>
    /\ UNCHANGED <<thAnalysis, thSearchResults, thSearches, thResponse,
                   thGenFailed, thResult>>
    /\ UNCHANGED <<session_listening, shown, renderPc, tasks, nHandled, hang>>
    /\ UNCHANGED <<ctxVars, spkVars, lisVars, raceVars>>

\* the steps of process_thought, while no backend call hangs, the search
\* answering with one of searches
AppThoughtWith(searches) ==
    /\ task.pc = "thinking"
    /\ ~hang.is
    /\ \/ \E out \in AppAnalyses : ThAnalyze(out)
       \/ ThDecide
       \/ \E out \in searches : ThSearch(out)
       \/ \E out \in GenOutcomes : ThGenerate(out)
       \/ ThExtract

AppThought == AppThoughtWith(AppSearches)

\* the backend call the task waits for never returns
AppHang ==
    /\ task.pc = "thinking"
    /\ thPc \in {"analyze", "search", "generate"}
    /\ ~hang.is
    /\ hang' = [is |-> TRUE, frames |-> nFrames,
                delivered |-> Len(callbacks), played |-> Len(invoked)]
    /\ UNCHANGED <<tasks, nHandled, task, ended>>
    /\ UNCHANGED <<ctxVars, spkVars, lisVars, thVars, raceVars, sessVars>>

\* process_thought has returned: the engine is left, and the response is
\* added as the persona's turn
AppReplyMessage(tick, dup) ==
    /\ task.pc = "thinking"
    /\ thPc = "done"
    /\ thPc' = "idle"
    /\ thQuery' = PyNone
    /\ thAnalysis' = AnalysisError
    /\ thSearchResults' = NoSearch
    /\ thSearches' = <<>>
    /\ thResponse' = PyNone
    /\ thGenFailed' = FALSE
    /\ thResult' = Pending
    /\ lastRead' = NoRead
    /\ IF thResult.outcome # "returned"
       THEN /\ WriteError
            /\ ended' = Append(ended, [spoke |-> FALSE])
            /\ task' = NoTask
            /\ UNCHANGED <<clock, nSameMs, conversation_collection,
                           participants, recent_messages, added,
                           convReturned, current_topic, active_references,
                           reference_collection, refReturned, justCleared>>
       ELSE /\ AddMessageEffect(thResult.response, "Echo", tick, dup)
            /\ IF AddMessageRaises(thResult.response, "Echo", tick, dup)
               THEN /\ WriteError
                    /\ ended' = Append(ended, [spoke |-> FALSE])
                    /\ task' = NoTask
                    /\ UNCHANGED justCleared
               ELSE /\ task' = [pc |-> "refs",
                                response |-> thResult.response,
                                refs |-> thResult.references]
                    /\ justCleared' = FALSE
                    /\ UNCHANGED <<error_message, nErrors, ended>>
    /\ UNCHANGED <<budget, session_listening, shown, renderPc, tasks,
                   nHandled, hang>>
    /\ UNCHANGED <<spkVars, lisVars, raceVars>>

\* "for ref in references: self.context_manager.add_reference(...)", one
\* reference
AppReplyReference(tick, dup) ==
    /\ task.pc = "refs"
    /\ task.refs # <<>>
    /\ AddReferenceEffect(Head(task.refs).snippet, Head(task.refs).url,
                          tick, dup)
    /\ lastRead' = NoRead
    /\ IF AddReferenceRaises(Head(task.refs).snippet, Head(task.refs).url,
                             tick, dup)
       THEN /\ WriteError
            /\ ended' = Append(ended, [spoke |-> FALSE])
            /\ task' = NoTask
            /\ UNCHANGED justCleared
       ELSE /\ task' = [task EXCEPT !.refs = Tail(@)]
            /\ justCleared' = FALSE
            /\ UNCHANGED <<error_message, nErrors, ended>>
    /\ UNCHANGED <<budget, session_listening, shown, renderPc, tasks,
                   nHandled, hang>>
    /\ UNCHANGED <<spkVars, lisVars, thVars, raceVars>>

\* speak, had it been called before the loop over the references
SpeakBeforeReferences(refs) == TRUE

\* speak is called after the loop over the references has ended
SpeakAfterReferences(refs) == refs = <<>>

\* the session is updated and "self.speaker.speak(response)" ends the task
AppReplySpeak ==
    /\ task.pc = "refs"
    /\ SpeakAfterReferences(task.refs)
    /\ SpeakEffect(task.response)
    /\ ended' = Append(ended, [spoke |-> task.response # ""])
    /\ task' = NoTask
    /\ UNCHANGED <<tasks, nHandled, hang>>
    /\ UNCHANGED <<ctxVars, lisVars, thVars, raceVars, sessVars>>

\* One transcript through the application: the page, the listener, the
\* event loop and the speaker.
NextApp ==
    \/ \E device \in DeviceOutcomes : AppStartListening(device)
    \/ nFrames < MaxAppFrames /\ audio_callback
    \/ \E t \in ListenerThreads : AppLisStep(t)
    \/ \E tick \in {0, 1}, dup \in DupOutcomes :
          handle_speech_input(tick, dup)
    \/ \E b1, b2 \in Backends : AppTaskStart(b1, b2)
    \/ AppThought
    \/ \E tick \in {0, 1}, dup \in DupOutcomes : AppReplyMessage(tick, dup)
    \/ \E tick \in {0, 1}, dup \in DupOutcomes : AppReplyReference(tick, dup)
    \/ AppReplySpeak
    \/ \E t \in SpeakerThreads : SpkStep(t)
    \/ RenderShow
    \/ RenderClear

\* The error field of the session: the page that displays and clears it,
\* and a writer on each thread, the page's (the Start button), the
\* listener's worker (handle_speech_input) and the event loop's (the start
\* of a task). Every other writer writes as these do.
NextSession ==
    \/ \E device \in DeviceOutcomes : AppStartListening(device)
    \/ nFrames < MaxAppFrames /\ audio_callback
    \/ \E t \in ListenerThreads : AppLisStep(t)
    \/ \E tick \in {0, 1}, dup \in DupOutcomes :
          handle_speech_input(tick, dup)
    \/ \E b1, b2 \in Backends : AppTaskStart(b1, b2)
    \/ RenderShow
    \/ RenderClear

\* Transcripts through the application while a backend call may hang: the
\* device is there, the store answers and the clock advances between calls.
NextHang ==
    \/ AppStartListening("ok")
    \/ nFrames < MaxHangFrames /\ audio_callback
    \/ \E t \in ListenerThreads : AppLisStep(t)
    \/ handle_speech_input(1, "raise")
    \/ \E b \in {b \in Backends : b.outcome = "ok"} : AppTaskStart(b, b)
    \/ AppThought
    \/ AppHang
    \/ AppReplyMessage(1, "raise")
    \/ AppReplyReference(1, "raise")
    \/ AppReplySpeak
    \/ \E t \in SpeakerThreads : SpkStep(t)

\* a failed search, or one whose items are mappings, no item twice
ReplySearches ==
    {r \in SearchOutcomes :
        /\ \A k \in 1..Len(r.results) : r.results[k].mapping
        /\ NoRepeat(r.results)}

\* Transcripts through the application to the reply: the device is there,
\* the store answers its queries and takes the Human turn, the search gives
\* back up to MaxResults items, and the speech threads are left out.
NextReply ==
    \/ AppStartListening("ok")
    \/ nFrames < MaxReplyFrames /\ audio_callback
    \/ \E t \in ListenerThreads : AppLisStep(t)
    \/ handle_speech_input(1, "raise")
    \/ \E b \in {b \in Backends : b.outcome = "ok"} : AppTaskStart(b, b)
    \/ AppThoughtWith(ReplySearches)
    \/ \E tick \in {0, 1}, dup \in DupOutcomes : AppReplyMessage(tick, dup)
    \/ \E tick \in {0, 1} : AppReplyReference(tick, "raise")
    \/ AppReplySpeak

InitSpeakerOnly ==
    /\ InitSpeaker
    /\ InitListener
    /\ InitThought
    /\ InitContext
    /\ InitApp
    /\ budget = 0

SpecSpeaker == InitSpeakerOnly /\ [][NextSpeaker]_vars

\* the items speak() has enqueued and clear_queue() has not removed, in
\* the order of the speak() calls
NotCleared ==
    SelectSeq([i \in 1..nSpoken |-> i], LAMBDA n : n \notin cleared)

\* C2: the texts passed to speak() are handed to synthesis in exactly the
\* order they were enqueued: the synthesis calls made so far are the first
\* items of the enqueue order, none skipped, none twice, none out of order.
C2_SynthesisInEnqueueOrder ==
    /\ Len(invoked) <= Len(NotCleared)
    /\ invoked = SubSeq(NotCleared, 1, Len(invoked))

\* C3: at most one playback (convert + play of one item) is in progress,
\* in every reachable state.
C3_AtMostOnePlayback ==
    Cardinality({t \in SpeakerThreads : spk[t].pc = "playing"}) <= 1

\* C32: a call of speak with empty text leaves the speech queue as it is;
\* a call with any other text makes the queue one item longer, the items
\* that were queued keep their places and the new text is the last.
C32_SpeakAppendsOne ==
    [][\A text \in SpeakTexts :
          speak(text) =>
              IF text = ""
              THEN speech_queue' = speech_queue
              ELSE /\ Len(speech_queue') = Len(speech_queue) + 1
                   /\ SubSeq(speech_queue', 1, Len(speech_queue)) = speech_queue
                   /\ speech_queue'[Len(speech_queue')].text = text]_vars

\* two texts were given to speak() and wait in the queue in that order
C32_Witness ==
    /\ nSpoken = 2
    /\ speech_queue = <<[n |-> 1, text |-> "a"], [n |-> 2, text |-> "b"]>>

\* C40: from the moment stop() has lowered the flag until the next start(),
\* nothing leaves the speech queue except through clear_queue(): the texts
\* that were queued stay queued, in order, and a text enqueued meanwhile is
\* added behind them.
C40_StopKeepsQueue ==
    [][(~is_speaking /\ ~is_speaking' /\ cleared' = cleared) =>
          /\ Len(speech_queue') >= Len(speech_queue)
          /\ SubSeq(speech_queue', 1, Len(speech_queue)) = speech_queue]_vars

\* One call of start() and no stop(): texts are enqueued while the one
\* speech thread works through the queue, and any synthesis may fail.
NextVoice ==
    \/ SpeakerStart
    \/ \E text \in SpeakTexts : speak(text)
    \/ \E t \in SpeakerThreads : SpkStep(t)

SpecVoice == InitSpeakerOnly /\ [][NextVoice]_vars

\* a started thread is scheduled again and again
SpecVoiceFair == SpecVoice /\ \A t \in SpeakerThreads : WF_vars(SpkStep(t))

\* the numbers of the items handed to synthesis so far
Invoked == {invoked[k] : k \in 1..Len(invoked)}

\* C31: when synthesis or playback of an item raises, the thread that held
\* it goes back to its loop with the item dropped (it is not put back and
\* not handed to synthesis again), the queue is as it was, and every item
\* enqueued after the failing one is handed to synthesis later; the items
\* are handed to synthesis in the order they were enqueued.
C31_ErrorDoesNotStopWorker ==
    /\ [][\A t \in SpeakerThreads :
              (spk[t].pc = "except" /\ spk'[t] # spk[t]) =>
                  /\ spk'[t] = [pc |-> "loop", item |-> NoItem]
                  /\ speech_queue' = speech_queue
                  /\ invoked' = invoked]_vars
    /\ [](invoked = [k \in 1..Len(invoked) |-> k])
    /\ \A t \in SpeakerThreads : \A n \in 1..MaxSpeak :
           (spk[t].pc = "except" /\ spk[t].item.n < n /\ n <= nSpoken)
               ~> (n \in Invoked)

\* synthesis of the first item has raised and the thread is in the handler,
\* while a second item enqueued after it waits in the queue
C31_Witness ==
    /\ nSpoken = 2
    /\ invoked = <<1>>
    /\ \E t \in SpeakerThreads :
          spk[t] = [pc |-> "except", item |-> [n |-> 1, text |-> "a"]]
    /\ speech_queue = <<[n |-> 2, text |-> "b"]>>

InitListenerOnly ==
    /\ InitSpeaker
    /\ InitListener
    /\ InitThought
    /\ InitContext
    /\ InitApp
    /\ budget = 0

SpecListener == InitListenerOnly /\ [][NextListener]_vars

\* the frames 1..n in the order the device delivered them
FirstFrames(n) == [k \in 1..n |-> k]

\* C4: the speech-to-text engine is never invoked on a collection that
\* holds fewer frames than one collection duration, however many dequeue
\* timeouts occurred.
C4_NoCallBelowThreshold ==
    \A c \in 1..Len(sttCalls) : Len(sttCalls[c]) >= ChunksPerCycle

\* C5: with the listening flag up throughout and exactly one collection
\* duration of frames fed, the engine is called at most once, and only on
\* the concatenation of precisely those frames in dequeue order.
C5_ThresholdGivesOneCall ==
    (~flagCleared /\ nFrames = ChunksPerCycle) =>
        \/ sttCalls = <<>>
        \/ sttCalls = <<FirstFrames(ChunksPerCycle)>>

\* the process_audio threads that have been started and have not ended
LiveListeners == {t \in ListenerThreads : lis[t].pc \notin {"none", "done"}}

\* C17: under every interleaving of start(), stop() and the worker's steps
\* at most one process_audio worker is live, so at most one collection or
\* transcription runs at a time.
C17_OneCollectionCycle == Cardinality(LiveListeners) <= 1

FramesOf(q) == {q[k] : k \in 1..Len(q)}

\* C18: transcripts reach the callback in the order of their audio (when
\* all frames of one were captured before all frames of another, its
\* callback comes first), and no frame is part of two transcripts.
C18_TranscriptsInAudioOrder ==
    \A i, j \in 1..Len(delivered) :
        i < j =>
            /\ ~(\A x \in FramesOf(delivered[j]), y \in FramesOf(delivered[i]) :
                    x < y)
            /\ FramesOf(delivered[i]) \cap FramesOf(delivered[j]) = {}

\* C19: when stop() has returned, the worker thread has ended, at whatever
\* point of its cycle stop() was called.
C19_StopEndsWorker ==
    (lisStopped /\ process_thread # NoThread) =>
        lis[process_thread].pc = "done"

\* C21: stop() is idempotent: after it has returned, once or twice in a
\* row or on a listener never started, the listening flag is false, the
\* stream is not open and no worker is running.
C21_StopLeavesStopped ==
    lisStopped =>
        /\ ~is_listening
        /\ stream \in {"none", "closed"}
        /\ LiveListeners = {}

\* C36: when the listening flag went down while a worker was collecting,
\* the frames of that collection are not handed to the speech-to-text
\* engine, so no callback is made for them.
C36_PartialAudioDropped ==
    \A t \in ListenerThreads : lis[t].pc = "stt" => ~lis[t].cut

\* C38: from the return of stop() until the next call of start(), the
\* callback is not invoked and no call of the speech-to-text engine is
\* started.
C38_QuietAfterStop ==
    [][(lisStopped /\ lisStopped') =>
          /\ callbacks' = callbacks
          /\ sttCalls' = sttCalls]_vars

\* C20: the queue of audio frames has a capacity: it never holds every
\* frame the device delivers while the worker does not keep up.
C20_QueueBounded == Len(audio_queue) < MaxFrames

\* One capture session: start() at most MaxCaptureStarts times with a
\* device, any number of times without, stop(), the device delivering
\* frames or dropping, and the worker.
NextCapture ==
    \/ \E device \in DeviceOutcomes :
          /\ device = "ok" => nLisThreads < MaxCaptureStarts
          /\ ListenerStart(device)
    \/ ListenerStopBegin
    \/ ListenerStopJoined
    \/ ListenerStopTimeout
    \/ nFrames < MaxCaptureFrames /\ audio_callback
    \/ DeviceDrop
    \/ \E t \in ListenerThreads : LisStep(t)

SpecCapture == InitListenerOnly /\ [][NextCapture]_vars

\* the worker threads run whenever they can
SpecCaptureFair ==
    SpecCapture /\ \A t \in ListenerThreads : WF_vars(LisStep(t))

NoDeviceStart ==
    /\ start_error' # start_error
    /\ start_error' = StartError("nodevice")

\* C26: start() on a host without an input device raises the error that
\* names the missing device and does nothing else: the queue is as it was,
\* no stream is open, no worker was started and the flag is down.
C26_NoDeviceStartDoesNothing ==
    [][NoDeviceStart =>
          /\ audio_queue' = audio_queue
          /\ stream' \in {"none", "closed"}
          /\ nLisThreads' = nLisThreads
          /\ process_thread' = process_thread
          /\ \A t \in ListenerThreads :
                /\ lis'[t].pc = lis[t].pc
                /\ lis'[t].i = lis[t].i
                /\ lis'[t].audio_data = lis[t].audio_data
          /\ ~is_listening']_vars

C26_Witness ==
    /\ start_error = StartError("nodevice")
    /\ nLisThreads = 1
    /\ ~is_listening
    /\ stream = "closed"
    /\ lisCtl = "idle"
    /\ ~lisStopped

\* C27: once the input device has dropped, the listener lowers its flag by
\* itself.
C27_DropClearsFlag == (stream = "dropped") ~> ~is_listening

\* a call of model.transcribe ends
EngineReturned ==
    \E t \in ListenerThreads : lis[t].pc = "stt" /\ lis'[t].pc # "stt"

EngineRaised ==
    /\ EngineReturned
    /\ lastResult' = "raise"

\* C29: when the engine raises, nothing is delivered and the worker is
\* back at the top of its loop, from where it starts the next collection
\* while the flag is up.
C29_EngineFailureSkipsCycle ==
    [][/\ EngineRaised =>
             /\ callbacks' = callbacks
             /\ delivered' = delivered
             /\ last_transcript' = last_transcript
             /\ \A t \in ListenerThreads :
                   (lis[t].pc = "stt" /\ lis'[t] # lis[t]) =>
                       lis'[t].pc = "loop"
       /\ \A t \in ListenerThreads :
             (lis[t].pc = "loop" /\ lis'[t] # lis[t] /\ is_listening) =>
                 lis'[t].pc = "for"]_vars

C29_Witness ==
    /\ lastResult = "raise"
    /\ Len(sttCalls) = 2
    /\ \E t \in ListenerThreads : lis[t].pc = "stt"

HasText(result) == result # "raise" /\ Strip(result) # ""

InitThoughtOnly ==
    /\ InitThought
    /\ InitSpeaker
    /\ InitListener
    /\ InitContext
    /\ InitApp
    /\ budget = 0

SpecThought == InitThoughtOnly /\ [][NextThought]_vars

\* the call is past its search decision
PastDecision == thPc \in {"search", "generate", "extract", "done"}

\* C6: process_thought always ends by returning a pair of a response text
\* and a list of references; no exception leaves it, whatever the
\* analysis, the search result or the generation backend give back.
C6_AlwaysReturnsPair ==
    /\ thResult.outcome # "raised"
    /\ thPc = "done" =>
          /\ thResult.outcome = "returned"
          /\ thResult.response # PyNone
          /\ Len(thResult.references) <= MaxResults

\* a call that met a text for an analysis, an item that is no mapping and
\* a failed generation, and still returned
C6_Witness ==
    /\ thPc = "done"
    /\ thResult.outcome = "returned"
    /\ thAnalysis.kind = "text"
    /\ thGenFailed
    /\ \E k \in 1..Len(thSearchResults.results) :
          ~thSearchResults.results[k].mapping

\* C7: when the generation backend fails, the call returns a non-empty
\* response text and an empty list of references, for every input.
C7_GenerationFailureGivesNoReferences ==
    (thPc = "done" /\ thGenFailed) =>
        /\ thResult.outcome = "returned"
        /\ thResult.response \notin {PyNone, ""}
        /\ thResult.references = <<>>

\* C35: when the search of a call failed, the generation step has still
\* run and the call returns its text together with no references.
C35_FailedSearchGivesNoReferences ==
    (thPc = "done" /\ thSearchResults.status = "error") =>
        /\ thResponse # PyNone
        /\ thResult = [outcome |-> "returned",
                       response |-> thResponse,
                       references |-> <<>>]

\* a call that searched, whose search failed, and that returned the
\* generated text
C35_Witness ==
    /\ thPc = "done"
    /\ thSearches # <<>>
    /\ thSearchResults.status = "error"
    /\ thResult.response = "Sure."
    /\ thResult.references = <<>>

\* the query is supplied
QuerySupplied == Truthy(thQuery)

\* the analysis output flags at least one clarification need
FlagsNeed == thAnalysis.kind = "dict" /\ thAnalysis.needs # <<>>

\* C8: the search is invoked if and only if a query is supplied or the
\* analysis flags at least one clarification need; the string searched is
\* the query when supplied, else the first flagged need; and the search is
\* invoked at most once in a call.
C8_SearchDecision ==
    PastDecision =>
        thSearches = IF QuerySupplied THEN <<thQuery>>
                     ELSE IF FlagsNeed THEN <<thAnalysis.needs[1]>>
                     ELSE <<>>

\* a call without a query whose analysis lists two needs searched the first
C8_Witness ==
    /\ thPc = "done"
    /\ thQuery = PyNone
    /\ Len(thAnalysis.needs) = 2
    /\ thSearches = <<thAnalysis.needs[1]>>

\* C10: the references returned are one record per item of a successful
\* search, in the order of the items, with the item's title, url and
\* snippet (the empty text for a missing one); they are empty when no
\* search ran or the search failed.
C10_ReferencesMirrorResults ==
    (thPc = "done") =>
        IF thSearches # <<>> /\ thSearchResults.status = "success"
        THEN /\ Len(thResult.references) = Len(thSearchResults.results)
             /\ \A k \in 1..Len(thSearchResults.results) :
                   thSearchResults.results[k].mapping =>
                       thResult.references[k] =
                           Reference(thSearchResults.results[k])
        ELSE thResult.references = <<>>

\* ------------------------------------------------------------------------
\* The memory: ContextManager over VectorStorage, every operation
\* ------------------------------------------------------------------------

InitMemory ==
    /\ InitContext
    /\ budget = MaxMemoryOps
    /\ InitSpeaker
    /\ InitListener
    /\ InitApp
    /\ InitThought

SpecMemory == InitMemory /\ [][NextMemory]_vars

\* the reads of the context
ContextReads == {"get_conversation_summary", "get_active_references",
                 "get_relevant_context"}

\* C11: after any calls of add_message, add_reference, update_topic and
\* remove_reference, a read that follows clear_context() returns what the
\* same read returns on a freshly constructed ContextManager (over the same
\* store, with the same readings of the clock and answers of the backend).
C11_ClearThenReadAsFresh ==
    (justCleared /\ lastRead.op \in ContextReads) =>
        lastRead.result = ReadResult(FreshContext, lastRead.op, lastRead.in)

\* messages and references were added, the context was cleared, and the
\* active references were read
C11_Witness ==
    /\ justCleared
    /\ convReturned # <<>>
    /\ refReturned # <<>>
    /\ lastRead.op = "get_active_references"
    /\ lastRead.result = Returned(<<>>)

\* C12: get_conversation_summary() on an empty context returns
\* message_count 0, reference_count 0 and a duration of exactly 0.
C12_EmptySummaryIsZero ==
    (/\ lastRead.op = "get_conversation_summary"
     /\ recent_messages = <<>>
     /\ active_references = <<>>) =>
        /\ lastRead.result.value.message_count = 0
        /\ lastRead.result.value.reference_count = 0
        /\ lastRead.result.value.duration = 0

\* C33: a call of add_reference that returns makes the reference partition
\* one document longer and the active-reference list one entry longer, the
\* new entry last and carrying the returned id, and leaves the recency
\* window and the participants as they were; the list loses entries only
\* through remove_reference and clear_context, and is empty after
\* clear_context.
C33_AddReferenceAppends ==
    [][/\ refReturned' # refReturned =>
              /\ Len(reference_collection') = Len(reference_collection) + 1
              /\ Len(active_references') = Len(active_references) + 1
              /\ SubSeq(active_references', 1, Len(active_references))
                    = active_references
              /\ active_references'[Len(active_references')].id
                    = refReturned'[Len(refReturned')]
              /\ reference_collection'[Len(reference_collection')].id
                    = refReturned'[Len(refReturned')]
              /\ recent_messages' = recent_messages
              /\ participants' = participants
       /\ justCleared' => active_references' = <<>>]_vars

\* C34: clear_context() leaves the documents of both partitions of the
\* store as they were, so a search of the conversations answers after the
\* clear what it answered before it, while the context is emptied.
C34_ClearContextKeepsStore ==
    [][justCleared' =>
          /\ conversation_collection' = conversation_collection
          /\ reference_collection' = reference_collection
          /\ \A b \in Backends :
                search_conversations(conversation_collection', n_results, b)
                  = search_conversations(conversation_collection, n_results, b)
          /\ recent_messages' = <<>>]_vars

\* a turn was added, the context was cleared, and the search made after the
\* clear returned the turn
C34_Witness ==
    /\ justCleared
    /\ recent_messages = <<>>
    /\ lastRead.op = "search_conversations"
    /\ ~lastRead.result.raised
    /\ \E k \in 1..Len(lastRead.result.value) :
          lastRead.result.value[k].id \in {convReturned[i] : i \in 1..Len(convReturned)}

\* the speakers of the messages in the recency window
WindowSpeakers == {recent_messages[k].speaker : k \in 1..Len(recent_messages)}

\* C37: with the calls of the context made one at a time, the speaker of
\* every message in the recency window is in the participants, and the
\* participants are empty when clear_context() was the last call.
C37_SpeakersAreParticipants ==
    /\ WindowSpeakers \subseteq participants
    /\ justCleared => participants = {}

\* two speakers have a message in the window and the topic was set
C37_Witness ==
    /\ WindowSpeakers = {"Human", "Echo"}
    /\ participants = {"Human", "Echo"}
    /\ current_topic # PyNone

StrictlyIncreasing(q) == \A i, j \in 1..Len(q) : i < j => q[i] < q[j]

\* C13: the ids add_conversation returns, and the ids add_reference
\* returns, are pairwise distinct and increase in the order of the calls,
\* also for calls made within one millisecond.
C13_IdsDistinctAndIncreasing ==
    /\ StrictlyIncreasing(convReturned)
    /\ StrictlyIncreasing(refReturned)

\* C14: every id held in the recency window is the id of a document held
\* in the conversation partition, also after clear_all().
C14_NoDanglingIds ==
    \A k \in 1..Len(recent_messages) :
        recent_messages[k].id \in Ids(conversation_collection)

\* C15: when a search of the store fails in get_relevant_context, the call
\* returns the recency window, the participants and the topic with empty
\* relevant_conversations and relevant_references; it does not raise.
C15_SearchFailureDegrades ==
    (/\ lastRead.op = "get_relevant_context"
     /\ \/ lastRead.in.b1.outcome = "raise"
        \/ lastRead.in.b2.outcome = "raise") =>
        lastRead.result =
            Returned([recent_context |-> recent_messages,
                      relevant_conversations |-> <<>>,
                      relevant_references |-> <<>>,
                      participants |-> participants,
                      current_topic |-> current_topic])

\* C16: search_conversations and search_references return the empty
\* sequence, and do not raise, when the query of the backend fails or the
\* partition is empty.
C16_SearchReturnsEmptyOnFailure ==
    /\ (/\ lastRead.op = "search_conversations"
        /\ \/ lastRead.in.b1.outcome = "raise"
           \/ conversation_collection = <<>>) =>
           lastRead.result = Returned(<<>>)
    /\ (/\ lastRead.op = "search_references"
        /\ \/ lastRead.in.b1.outcome = "raise"
           \/ reference_collection = <<>>) =>
           lastRead.result = Returned(<<>>)

\* ------------------------------------------------------------------------
\* The recency window under the transcript path: handle_speech_input adds
\* every transcript as a "Human" turn; the UI may clear the context
\* ------------------------------------------------------------------------

InitRace ==
    /\ InitContext
    /\ budget = 0
    /\ InitApp
    /\ InitSpeaker
    /\ InitListener
    /\ InitThought

SpecRace == InitRace /\ [][NextRace]_vars

NoCallInside == \A c \in Callers : amCall[c].pc = "idle"

\* C22: whatever the interleaving of add_message with clear_context, what
\* is left when no call is in progress is what some serial order of the
\* calls leaves; in particular no message stands in the window whose
\* speaker is not in the participant set, which no serial order leaves.
C22_NoHalfUpdate ==
    NoCallInside =>
        \A k \in 1..Len(recent_messages) :
            recent_messages[k].speaker \in participants

PositionOf(q, id) == CHOOSE k \in 1..Len(q) : q[k].id = id

InOrder(q, a, b) ==
    (a \in Ids(q) /\ b \in Ids(q)) => PositionOf(q, a) < PositionOf(q, b)

\* C25: of two calls of add_message, the turn of the one invoked first
\* stands before the turn of the other in the conversation partition and
\* in the recency window.
C25_InvocationOrder ==
    \A i, j \in 1..Len(amIds) :
        (i < j /\ amIds[i] # 0 /\ amIds[j] # 0) =>
            /\ InOrder(conversation_collection, amIds[i], amIds[j])
            /\ InOrder(recent_messages, amIds[i], amIds[j])

SpecApp == InitRace /\ [][NextApp]_vars

SpecHang == InitRace /\ [][NextHang]_vars

SpecSession == InitRace /\ [][NextSession]_vars

SpecReply == InitRace /\ [][NextReply]_vars

\* the messages of one speaker among the messages add_message returned for
AddedBy(speaker) == SelectSeq(added, LAMBDA m : m.speaker = speaker)

\* C39: the reply to a transcript is added to the context when the Human
\* turn of that transcript is already there; the references of a reply are
\* added one by one in the order of the search result; the reply is handed
\* to the speaker when the reply has been added and none of its references
\* is left to add; and no more replies are handed to the speaker than
\* tasks have ended, one task being created per transcript.
C39_ReplyOrder ==
    /\ [](/\ nSpoken <= Len(ended)
          /\ Len(ended) <= Len(tasks)
          /\ Len(tasks) <= Len(callbacks))
    /\ [][Len(AddedBy("Echo")') > Len(AddedBy("Echo")) =>
              /\ task.pc = "thinking"
              /\ Len(AddedBy("Human")) >= Len(ended) + 1
              /\ AddedBy("Human")[Len(ended) + 1].text = tasks[Len(ended) + 1]]_vars
    /\ [][Len(active_references') > Len(active_references) =>
              /\ task.pc = "refs" /\ task.refs # <<>>
              /\ AddedBy("Echo") # <<>>
              /\ AddedBy("Echo")[Len(AddedBy("Echo"))].text = task.response
              /\ active_references'[Len(active_references')].url
                    = Head(task.refs).url
              /\ task'.refs = Tail(task.refs)]_vars
    /\ [][nSpoken' > nSpoken =>
              /\ task.pc = "refs" /\ task.refs = <<>>
              /\ AddedBy("Echo") # <<>>
              /\ AddedBy("Echo")[Len(AddedBy("Echo"))].text = task.response
              /\ speech_queue'[Len(speech_queue')].text = task.response
              /\ Len(ended') = Len(ended) + 1]_vars

\* two transcripts were answered: each reply was added after its Human
\* turn, the two references of a search were added in its order, and two
\* replies wait in the speech queue
C39_Witness ==
    /\ Len(tasks) = 2
    /\ Len(ended) = 2
    /\ nSpoken = 2
    /\ [k \in 1..Len(added) |-> added[k].speaker]
          = <<"Human", "Echo", "Human", "Echo">>
    /\ [k \in 1..Len(active_references) |-> active_references[k].url]
          = <<"U2", "U1">>

\* C23: every task that processed a transcript has given some text to the
\* speaker by the time it ends.
C23_EveryTaskSpeaks == \A k \in 1..Len(ended) : ended[k].spoke

ShownErrors == {shown[k] : k \in 1..Len(shown)}

\* C24: no error is displayed twice, and outside the two statements that
\* display and clear it the field holds no error that was displayed: a
\* render that finds no new error displays none.
C24_ErrorShownOnce ==
    /\ \A i, j \in 1..Len(shown) : i # j => shown[i] # shown[j]
    /\ (renderPc = "idle" /\ error_message # NoError) =>
           error_message \notin ShownErrors

\* two errors were written, one by the page's thread and one by the event
\* loop's, each was displayed and the field is clear
C24_Witness ==
    /\ shown = <<1, 2>>
    /\ error_message = NoError
    /\ renderPc = "idle"
    /\ session_listening
    /\ ended = <<[spoke |-> FALSE]>>

LiveSpeakers == {t \in SpeakerThreads : spk[t].pc \notin {"none", "done"}}

InitWindow ==
    /\ InitContext
    /\ budget = MaxAdds
    /\ InitSpeaker
    /\ InitListener
    /\ InitApp
    /\ InitThought

NextWindow ==
    \/ \E text \in Texts, tick \in {0, 1}, dup \in DupOutcomes :
          add_message(text, "Human", tick, dup)
    \/ clear_context

SpecWindow == InitWindow /\ [][NextWindow]_vars

\* C1: the recency window never holds more than max_recent_messages
\* entries and is exactly the min(k, N) messages added last, in insertion
\* order, k being the add_message calls that returned since construction
\* or the last clear_context.
C1_RecencyWindow ==
    /\ Len(recent_messages) <= max_recent_messages
    /\ recent_messages =
           LastN(added, Min(Len(added), max_recent_messages))

\* an eviction has happened: more messages added than the window holds,
\* and the oldest one, which differs from its successor, is gone
C1_Witness ==
    /\ Len(added) > max_recent_messages
    /\ Len(recent_messages) = max_recent_messages
    /\ added[1] # added[2]
    /\ recent_messages[1] = added[Len(added) - max_recent_messages + 1]

====
